---- MODULE Spec2Model ----
(***************************************************************************)
(* Model of pytest_bootstrap.bootstrap_test (src/pytest_bootstrap/         *)
(* __init__.py).  Floating point numbers are modelled as exact rationals   *)
(* [n, d] in lowest terms; numpy arrays as [shape, data] with the data in  *)
(* row-major order.  One call of bootstrap_test is one behaviour: the      *)
(* arguments are fixed by Init and the body runs in program order.         *)
(***************************************************************************)
EXTENDS Integers, Sequences, FiniteSets, TLC

\* ---------------------------------------------------------------- bounds
\* Observations take the integer values 0..MaxVal.
MaxVal == 1
\* The largest num_bootstrap_samples of a call.
MaxR == 3

\* ------------------------------------------------------------- rationals
Abs(i) == IF i < 0 THEN -i ELSE i

RECURSIVE GCD(_, _)
GCD(a, b) == IF b = 0 THEN a ELSE GCD(b, a % b)

\* The rational n/d (d # 0) in lowest terms with a positive denominator.
Q(n, d) ==
    LET g == GCD(Abs(n), Abs(d))
        s == IF d < 0 THEN -1 ELSE 1
    IN  [n |-> (s * n) \div g, d |-> (s * d) \div g]

QI(i) == [n |-> i, d |-> 1]
QAdd(a, b) == Q(a.n * b.d + b.n * a.d, a.d * b.d)
QSub(a, b) == Q(a.n * b.d - b.n * a.d, a.d * b.d)
QMul(a, b) == Q(a.n * b.n, a.d * b.d)
QDiv(a, b) == Q(a.n * b.d, a.d * b.n)
QLt(a, b) == a.n * b.d < b.n * a.d
QLe(a, b) == a.n * b.d <= b.n * a.d
QAbs(a) == [n |-> Abs(a.n), d |-> a.d]
\* floor of a non-negative rational
QFloor(a) == a.n \div a.d

RECURSIVE QSum(_)
QSum(s) == IF s = <<>> THEN QI(0) ELSE QAdd(Head(s), QSum(Tail(s)))

\* ---------------------------------------------------------------- arrays
RECURSIVE Prod(_)
Prod(s) == IF s = <<>> THEN 1 ELSE Head(s) * Prod(Tail(s))

Arr(shape, data) == [shape |-> shape, data |-> data]
Scalar(x) == Arr(<<>>, <<x>>)
Ndim(a) == Len(a.shape)
Size(a) == Len(a.data)

\* a[idx] for a sequence idx of (1-based) row numbers: fancy indexing along
\* the first axis.
TakeRows(a, idx) ==
    LET w == Prod(Tail(a.shape))
    IN  Arr(<<Len(idx)>> \o Tail(a.shape),
            [j \in 1..(Len(idx) * w) |->
                a.data[(idx[((j - 1) \div w) + 1] - 1) * w + ((j - 1) % w) + 1]])

\* Column c (1..w) of an array seen as a matrix with w entries per row.
Column(a, c) ==
    LET w == Prod(Tail(a.shape))
    IN  [i \in 1..a.shape[1] |-> a.data[(i - 1) * w + c]]

\* np.mean(x, axis=0): the statistic used by the tests.
MeanAxis0(x) ==
    LET w == Prod(Tail(x.shape))
    IN  Arr(Tail(x.shape),
            [c \in 1..w |-> QDiv(QSum(Column(x, c)), QI(x.shape[1]))])

\* np.asarray of a list of equally shaped arrays: stack along a new axis 0.
RECURSIVE Concat(_)
Concat(l) == IF l = <<>> THEN <<>> ELSE Head(l).data \o Concat(Tail(l))

Stack(l) == Arr(<<Len(l)>> \o l[1].shape, Concat(l))

\* numpy broadcasting of a 0-d operand against an array: entry i, the shape
\* and the size of the broadcast pair.
At(a, i) == IF Ndim(a) = 0 THEN a.data[1] ELSE a.data[i]
BShape(a, b) == IF Ndim(a) = 0 THEN b.shape ELSE a.shape
BSize(a, b) == IF Ndim(a) = 0 THEN Size(b) ELSE Size(a)

\* a - b and a + b, elementwise.
Sub(a, b) == Arr(BShape(a, b), [i \in 1..BSize(a, b) |-> QSub(At(a, i), At(b, i))])
Add(a, b) == Arr(BShape(a, b), [i \in 1..BSize(a, b) |-> QAdd(At(a, i), At(b, i))])

\* np.any(a < b)
AnyLt(a, b) == \E i \in 1..BSize(a, b) : QLt(At(a, i), At(b, i))

\* ----------------------------------------------------------- percentiles
RECURSIVE Insert(_, _)
Insert(x, s) ==
    IF s = <<>> THEN <<x>>
    ELSE IF QLe(x, Head(s)) THEN <<x>> \o s
    ELSE <<Head(s)>> \o Insert(x, Tail(s))

RECURSIVE Sort(_)
Sort(s) == IF s = <<>> THEN <<>> ELSE Insert(Head(s), Sort(Tail(s)))

\* np.percentile of a sequence at q percent, method 'linear': the virtual
\* index q/100 * (N - 1) is interpolated between the neighbouring order
\* statistics.
Percentile1(s, q) ==
    LET srt == Sort(s)
        N == Len(s)
        h == QMul(QDiv(q, QI(100)), QI(N - 1))
        i == QFloor(h)
        g == QSub(h, QI(i))
        lo == srt[i + 1]
        hi == srt[IF i + 2 > N THEN N ELSE i + 2]
    IN  QAdd(lo, QMul(g, QSub(hi, lo)))

\* np.percentile(a, q, axis=0) for a 1-d or 2-d array.
PercentileAxis0(a, q) ==
    LET w == Prod(Tail(a.shape))
    IN  Arr(Tail(a.shape), [c \in 1..w |-> Percentile1(Column(a, c), q)])

\* np.percentile(a, q) / np.median(a): over the flattened array.
PercentileFlat(a, q) == Percentile1(a.data, q)

\* ------------------------------------------------------------ the inputs
Vals == 0..MaxVal

\* The pairs of observation values, in ascending order (resampling draws the
\* rows in every order anyway).
Pairs == {p \in Vals \X Vals : p[1] <= p[2]}

\* 1-d samples (scalar observations), 2-d samples (vector observations with
\* two components) and 3-d samples (1 x 1 matrix observations); every sample
\* holds two observations.
ScalarSamples == {Arr(<<2>>, <<QI(p[1]), QI(p[2])>>) : p \in Pairs}
VectorSamples ==
    {Arr(<<2, 2>>, <<QI(p[1]), QI(MaxVal - p[1]), QI(p[2]), QI(MaxVal - p[2])>>) :
        p \in Pairs}
MatrixSamples == {Arr(<<2, 1, 1>>, <<QI(p[1]), QI(p[2])>>) : p \in Pairs}

References == {Scalar(QI(-1)), Scalar(QI(1)), Scalar(QI(2))}
Alphas == {Q(1, 3), Q(1, 4)}
\* (rtol, atol)
Tolerances == {<<QI(0), QI(0)>>, <<Q(1, 2), QI(0)>>, <<QI(0), QI(1)>>}
\* "" stands for the falsy values (False, None, '') that disable the
\* correction; every other string is passed as written.
Policies == {"bonferroni", "", "none", "some-method"}
OnFail == {"raise", "warn", "invalid"}

\* ------------------------------------------------------------- the state
VARIABLES
    samples, reference, num_bootstrap_samples, alpha,
    multiple_hypothesis_correction, rtol, atol, on_fail,   \* the arguments
    statistics,       \* the list of replicate outputs, then the stacked array
    alpha_corrected, lower, upper, tol,                    \* locals
    result,           \* the result dict: a function from its keys
    warned,           \* the warnings emitted so far, in order
    raised,           \* the exception that ended the call, if any
    returned,         \* TRUE once the call has returned result
    pc

args == <<samples, reference, num_bootstrap_samples, alpha,
          multiple_hypothesis_correction, rtol, atol, on_fail>>
locals == <<statistics, alpha_corrected, lower, upper, tol, result>>
vars == <<args, locals, warned, raised, returned, pc>>

NoArray == Arr(<<0>>, <<>>)
NoDict == [k \in {} |-> TRUE]
NoException == [type |-> "None"]

Init ==
    /\ samples \in ScalarSamples \cup VectorSamples \cup MatrixSamples
    /\ reference \in References
    /\ num_bootstrap_samples \in {MaxR - 1, MaxR}
    /\ alpha \in Alphas
    /\ multiple_hypothesis_correction \in Policies
    /\ \E t \in Tolerances : rtol = t[1] /\ atol = t[2]
    /\ on_fail \in OnFail
    /\ statistics = <<>>
    /\ alpha_corrected = alpha
    /\ lower = NoArray
    /\ upper = NoArray
    /\ tol = NoArray
    /\ result = NoDict
    /\ warned = <<>>
    /\ raised = NoException
    /\ returned = FALSE
    /\ pc = "resample"

\* ------------------------------------------------------------ the pieces
\* statistic(bootstrap_sample): the tests' np.mean / np.mean(x, axis=0).
Statistic(x) == MeanAxis0(x)

\* Mutant: the dimension check off by one.
TooManyDimensionsOffByOne(a) == Ndim(a) > 3

\* statistics.ndim > 2
TooManyDimensions(a) == Ndim(a) > 2

\* Mutant: the string 'none' counted among the values that disable the
\* correction.
TruthyExceptNone(policy) == policy \notin {"", "none"}

\* The truth value of multiple_hypothesis_correction in
\* `elif multiple_hypothesis_correction:`.
Truthy(policy) == policy # ""

\* alpha / statistics.shape[1]
Bonferroni(a, k) == QDiv(a, QI(k))

\* Mutant: <= in place of <.
TailUnresolvedInclusive(ac, R) == QLe(ac, Q(1, R))

\* alpha_corrected < 1 / num_bootstrap_samples
TailUnresolved(ac, R) == QLt(ac, Q(1, R))

\* Mutant: the level not split between the two tails.
QuantilesNotHalved(ac) ==
    <<QMul(QI(100), ac), QMul(QI(100), QSub(QI(1), ac))>>

\* quantiles = [100 * alpha_corrected / 2, 100 * (1 - alpha_corrected / 2)]
Quantiles(ac) ==
    <<QDiv(QMul(QI(100), ac), QI(2)),
      QMul(QI(100), QSub(QI(1), QDiv(ac, QI(2))))>>

\* Mutant: the relative tolerance scaled by the signed reference.
TolSigned(at, rt, ref) ==
    Arr(ref.shape, [i \in 1..Size(ref) |-> QAdd(at, QMul(rt, ref.data[i]))])

\* tol = atol + rtol * np.abs(reference)
Tol(at, rt, ref) ==
    Arr(ref.shape, [i \in 1..Size(ref) |-> QAdd(at, QMul(rt, QAbs(ref.data[i])))])

\* np.mean and np.var (the square of np.std: population variance) of all
\* entries.
MeanAll(a) == QDiv(QSum(a.data), QI(Size(a)))
VarAll(a) ==
    LET m == MeanAll(a)
    IN  QDiv(QSum([i \in 1..Size(a) |->
                     QMul(QSub(a.data[i], m), QSub(a.data[i], m))]), QI(Size(a)))

\* (reference - np.mean(statistics)) / np.std(statistics).  The quotient is
\* kept as its sign and its square; a zero standard deviation gives numpy's
\* inf or nan.
Sign(q) == IF q.n < 0 THEN -1 ELSE IF q.n > 0 THEN 1 ELSE 0
ZScore(ref, stats) ==
    LET m == MeanAll(stats)
        v == VarAll(stats)
        Z(x) == LET num == QSub(x, m)
                IN  IF v.n = 0
                    THEN [kind |-> IF num.n = 0 THEN "nan" ELSE "inf",
                          sign |-> Sign(num), square |-> QI(0)]
                    ELSE [kind |-> "finite", sign |-> Sign(num),
                          square |-> QDiv(QMul(num, num), v)]
    IN  [i \in 1..Size(ref) |-> Z(ref.data[i])]

\* np.diff(np.percentile(statistics, [25, 75])).squeeze()
Iqr(stats) == QSub(PercentileFlat(stats, QI(75)), PercentileFlat(stats, QI(25)))

\* The dict built at lines 101-111.
Collect(al, ac, ref, lo, up, stats, t) ==
    [alpha |-> al,
     alpha_corrected |-> al,
     reference |-> ref,
     lower |-> lo,
     upper |-> up,
     z_score |-> ZScore(ref, stats),
     median |-> PercentileFlat(stats, QI(50)),
     iqr |-> Iqr(stats),
     tol |-> t]

\* Mutant: np.all in place of np.any.
OutsideAll(ref, lo, up, t) ==
    \/ \A i \in 1..Size(lo) : QLt(ref.data[1], QSub(lo.data[i], t.data[1]))
    \/ \A i \in 1..Size(up) : QLt(QAdd(up.data[i], t.data[1]), ref.data[1])

\* Mutant: <= and >= in place of < and >.
OutsideInclusive(ref, lo, up, t) ==
    \/ \E i \in 1..Size(lo) : QLe(ref.data[1], QSub(lo.data[i], t.data[1]))
    \/ \E i \in 1..Size(up) : QLe(QAdd(up.data[i], t.data[1]), ref.data[1])

\* np.any(reference < lower - tol) or np.any(reference > upper + tol)
Outside(ref, lo, up, t) ==
    \/ AnyLt(ref, Sub(lo, t))
    \/ AnyLt(Add(up, t), ref)

\* Mutant: the message states the lower limit twice.
BootstrapTestErrorLowerTwice(res) ==
    [type |-> "BootstrapTestError",
     message |-> [text |-> "the reference value lies outside the interval",
                  reference |-> res["reference"], alpha |-> res["alpha"],
                  lower |-> res["lower"], upper |-> res["lower"]]]

\* BootstrapTestError(result): the message is formatted at construction; the
\* result attribute is the dict object itself, so what it holds is read from
\* the variable result.
BootstrapTestError(res) ==
    [type |-> "BootstrapTestError",
     message |-> [text |-> "the reference value lies outside the interval",
                  reference |-> res["reference"], alpha |-> res["alpha"],
                  lower |-> res["lower"], upper |-> res["upper"]]]

\* result['statistics'] = statistics
WithStatistics(res, stats) == res @@ ("statistics" :> stats)

\* ----------------------------------------------------------- the actions
\* One pass of the loop at lines 73-76.
Resample ==
    /\ pc = "resample"
    /\ Len(statistics) < num_bootstrap_samples
    /\ \E idx \in [1..samples.shape[1] -> 1..samples.shape[1]] :
         statistics' = Append(statistics, Statistic(TakeRows(samples, idx)))
    /\ UNCHANGED <<args, alpha_corrected, lower, upper, tol, result,
                   warned, raised, returned, pc>>

\* Lines 77-89: stack the outputs, check the dimensions, correct alpha.
Correct ==
    /\ pc = "resample"
    /\ Len(statistics) = num_bootstrap_samples
    /\ LET stacked == Stack(statistics)
       IN  /\ statistics' = stacked
           /\ IF TooManyDimensions(stacked)
              THEN /\ raised' = [type |-> "ValueError",
                                 text |-> "only scalar and vector statistics are supported",
                                 dimensions |-> Ndim(stacked) - 1]
                   /\ pc' = "raised"
                   /\ UNCHANGED alpha_corrected
              ELSE IF Ndim(stacked) = 2
              THEN IF multiple_hypothesis_correction = "bonferroni"
                   THEN /\ alpha_corrected' = Bonferroni(alpha, stacked.shape[2])
                        /\ pc' = "tail"
                        /\ UNCHANGED raised
                   ELSE IF Truthy(multiple_hypothesis_correction)
                   THEN /\ raised' = [type |-> "NotImplementedError",
                                      text |-> "multiple hypothesis correction is not supported",
                                      policy |-> multiple_hypothesis_correction]
                        /\ pc' = "raised"
                        /\ UNCHANGED alpha_corrected
                   ELSE /\ pc' = "tail"
                        /\ UNCHANGED <<alpha_corrected, raised>>
              ELSE /\ pc' = "tail"
                   /\ UNCHANGED <<alpha_corrected, raised>>
    /\ UNCHANGED <<args, lower, upper, tol, result, warned, returned>>

\* Lines 91-93.
TailWarning ==
    /\ pc = "tail"
    /\ warned' = IF TailUnresolved(alpha_corrected, num_bootstrap_samples)
                 THEN Append(warned,
                        [category |-> "UserWarning",
                         text |-> "cannot estimate tail probabilities smaller than 1 / num_bootstrap_samples",
                         num_bootstrap_samples |-> num_bootstrap_samples])
                 ELSE warned
    /\ pc' = "interval"
    /\ UNCHANGED <<args, locals, raised, returned>>

\* Lines 95-111: the interval, the tolerance and the result dict.
Evaluate ==
    /\ pc = "interval"
    /\ LET q == Quantiles(alpha_corrected)
           lo == PercentileAxis0(statistics, q[1])
           up == PercentileAxis0(statistics, q[2])
           t == Tol(atol, rtol, reference)
       IN  /\ lower' = lo
           /\ upper' = up
           /\ tol' = t
           /\ result' = Collect(alpha, alpha_corrected, reference, lo, up, statistics, t)
    /\ pc' = "decide"
    /\ UNCHANGED <<args, statistics, alpha_corrected, warned, raised, returned>>

\* Lines 113-123: the tolerance check, the failure routing and the return.
Decide ==
    /\ pc = "decide"
    /\ IF Outside(reference, lower, upper, tol)
       THEN LET error == BootstrapTestError(result)
            IN  IF on_fail = "raise"
                THEN /\ raised' = error
                     /\ pc' = "raised"
                     /\ UNCHANGED <<result, warned, returned>>
                ELSE IF on_fail = "warn"
                THEN /\ warned' = Append(warned, [category |-> "UserWarning",
                                                  error |-> error])
                     /\ result' = WithStatistics(result, statistics)
                     /\ returned' = TRUE
                     /\ pc' = "returned"
                     /\ UNCHANGED raised
                ELSE /\ raised' = [type |-> "ValueError", arg |-> on_fail]
                     /\ pc' = "raised"
                     /\ UNCHANGED <<result, warned, returned>>
       ELSE /\ result' = WithStatistics(result, statistics)
            /\ returned' = TRUE
            /\ pc' = "returned"
            /\ UNCHANGED <<warned, raised>>
    /\ UNCHANGED <<args, statistics, alpha_corrected, lower, upper, tol>>

Next == Resample \/ Correct \/ TailWarning \/ Evaluate \/ Decide

Spec == Init /\ [][Next]_vars

\* ------------------------------------------ the tolerance specification
\* Calls on a constant sample (every observation equal to c) with the
\* tolerances of tests/test_pytest_bootstrap.py::test_tolerance.
ConstantSamples == {Arr(<<2>>, <<c, c>>) : c \in {Q(29, 10), Q(-29, 10)}}
TolReferences == {Scalar(QI(3)), Scalar(QI(-3)), Scalar(Q(29, 10))}
\* (rtol, atol)
TolTolerances ==
    {<<QI(0), QI(0)>>, <<Q(1, 1000), QI(0)>>,
     <<QI(0), Q(99, 1000)>>, <<QI(0), Q(1, 10)>>, <<QI(0), Q(11, 100)>>,
     <<Q(33, 1000), QI(0)>>, <<Q(34, 1000), QI(0)>>}

InitTol ==
    /\ samples \in ConstantSamples
    /\ reference \in TolReferences
    /\ num_bootstrap_samples \in {MaxR - 1, MaxR}
    /\ alpha \in Alphas
    /\ multiple_hypothesis_correction = "bonferroni"
    /\ \E t \in TolTolerances : rtol = t[1] /\ atol = t[2]
    /\ on_fail \in OnFail
    /\ statistics = <<>>
    /\ alpha_corrected = alpha
    /\ lower = NoArray
    /\ upper = NoArray
    /\ tol = NoArray
    /\ result = NoDict
    /\ warned = <<>>
    /\ raised = NoException
    /\ returned = FALSE
    /\ pc = "resample"

SpecTol == InitTol /\ [][Next]_vars

\* ------------------------------------------------------------ properties
\* The decision step (lines 113-123) has acted.
Decided == pc \in {"raised", "returned"} /\ DOMAIN result # {}

\* Number of output dimensions of the stacked statistics.
OutputDims == IF Ndim(statistics) = 2 THEN statistics.shape[2] ELSE 1

\* The level a k-dimensional bonferroni test must use, alpha otherwise.
ExpectedCorrected ==
    IF Ndim(statistics) = 2 /\ multiple_hypothesis_correction = "bonferroni"
    THEN Q(alpha.n, alpha.d * statistics.shape[2])
    ELSE alpha

\* atol + rtol * |reference|
TolAt == QAdd(atol, QMul(rtol, QAbs(reference.data[1])))

\* reference < lower[d] - tol or reference > upper[d] + tol
DimOutside(d) ==
    \/ QLt(reference.data[1], QSub(lower.data[d], TolAt))
    \/ QLt(QAdd(upper.data[d], TolAt), reference.data[1])

SomeDimOutside == \E d \in 1..Size(lower) : DimOutside(d)

FailureWarnings(w) == {i \in 1..Len(w) : "error" \in DOMAIN w[i]}
TailWarnings(w) == {i \in 1..Len(w) : "num_bootstrap_samples" \in DOMAIN w[i]}

RecordKeys ==
    {"alpha", "alpha_corrected", "reference", "lower", "upper", "z_score",
     "median", "iqr", "tol", "statistics"}

\* C1: with on_fail = 'raise', once the decision step has acted, a
\* BootstrapTestError has been raised if and only if some output dimension d
\* has reference < lower[d] - tol or reference > upper[d] + tol with
\* tol = atol + rtol * |reference|; otherwise the record was returned and no
\* error and no failure warning was produced.
C1_RaiseIffOutside ==
    (on_fail = "raise" /\ Decided) =>
        /\ (raised.type = "BootstrapTestError") <=> SomeDimOutside
        /\ ~SomeDimOutside =>
              /\ returned
              /\ pc = "returned"
              /\ raised.type = "None"
              /\ FailureWarnings(warned) = {}

\* A vector test raised although one of its dimensions lies inside.
C1_Witness ==
    /\ on_fail = "raise"
    /\ Decided
    /\ raised.type = "BootstrapTestError"
    /\ Ndim(statistics) = 2
    /\ \E d \in 1..Size(lower) : ~DimOutside(d)

\* C2: the alpha_corrected field of the result record is the level after the
\* correction: alpha / k for a k-dimensional bonferroni test, alpha otherwise.
C2_AlphaCorrectedField ==
    DOMAIN result # {} =>
        /\ result["alpha_corrected"] = ExpectedCorrected
        /\ result["alpha_corrected"] = alpha_corrected

\* C3: a raised BootstrapTestError carries the full result record, the
\* replicate collection included, and its message states the record's
\* reference, alpha, lower and upper.
C3_ErrorCarriesFullRecord ==
    raised.type = "BootstrapTestError" =>
        /\ RecordKeys \subseteq DOMAIN result
        /\ raised.message.reference = result["reference"]
        /\ raised.message.alpha = result["alpha"]
        /\ raised.message.lower = result["lower"]
        /\ raised.message.upper = result["upper"]

\* C4 as stated: once the correction step has acted, NotImplementedError has
\* been raised if and only if the statistic is vector valued and the policy
\* is none of 'none', disabled, 'bonferroni'.
C4_Original ==
    pc # "resample" =>
        ((raised.type = "NotImplementedError") <=>
            (/\ Ndim(statistics) = 2
             /\ multiple_hypothesis_correction \notin {"none", "", "bonferroni"}))

\* C4 as amended: once the correction step has acted, NotImplementedError has
\* been raised if and only if the statistic is vector valued and the policy
\* is a truthy value other than 'bonferroni' (the string 'none' included);
\* it names the policy and is raised before any tail warning, interval or
\* record; a scalar statistic keeps alpha whatever the policy.
C4_UnsupportedCorrection ==
    pc # "resample" =>
        /\ (raised.type = "NotImplementedError") <=>
              (/\ Ndim(statistics) = 2
               /\ multiple_hypothesis_correction \notin {"", "bonferroni"})
        /\ raised.type = "NotImplementedError" =>
              /\ raised.policy = multiple_hypothesis_correction
              /\ pc = "raised"
              /\ warned = <<>>
              /\ lower = NoArray
              /\ upper = NoArray
              /\ DOMAIN result = {}
              /\ ~returned
        /\ Ndim(statistics) = 1 => alpha_corrected = alpha

C4_Witness ==
    /\ raised.type = "NotImplementedError"
    /\ multiple_hypothesis_correction = "some-method"
    /\ Ndim(statistics) = 2

\* C5: whenever the stacked statistics have more than two dimensions the
\* call has ended with the dimension ValueError and nothing else happened:
\* no correction, no warning, no interval, no record, no on_fail dispatch.
C5_DimensionErrorFirst ==
    (pc # "resample" /\ Ndim(statistics) > 2) =>
        /\ pc = "raised"
        /\ raised.type = "ValueError"
        /\ "dimensions" \in DOMAIN raised
        /\ raised.dimensions = Ndim(statistics) - 1
        /\ alpha_corrected = alpha
        /\ warned = <<>>
        /\ lower = NoArray
        /\ upper = NoArray
        /\ tol = NoArray
        /\ DOMAIN result = {}
        /\ ~returned

\* The dimension error with an unsupported policy and an invalid on_fail.
C5_Witness ==
    /\ pc = "raised"
    /\ Ndim(statistics) > 2
    /\ raised.type = "ValueError"
    /\ multiple_hypothesis_correction = "some-method"
    /\ on_fail = "invalid"

\* C6: with on_fail = 'warn' the decision step on a failing check raises
\* nothing, emits exactly one warning that carries the BootstrapTestError of
\* the record (reference, alpha, lower, upper), and returns the record with
\* every field as computed before the warning plus the replicates.
C6_WarnReturnsRecord ==
    [][(pc = "decide" /\ on_fail = "warn" /\ SomeDimOutside) =>
        /\ raised'.type = "None"
        /\ returned'
        /\ pc' = "returned"
        /\ Len(warned') = Len(warned) + 1
        /\ FailureWarnings(warned) = {}
        /\ FailureWarnings(warned') = {Len(warned')}
        /\ LET w == warned'[Len(warned')]
           IN  /\ w.category = "UserWarning"
               /\ w.error.type = "BootstrapTestError"
               /\ w.error.message.reference = reference
               /\ w.error.message.alpha = alpha
               /\ w.error.message.lower = lower
               /\ w.error.message.upper = upper
        /\ DOMAIN result' = DOMAIN result \cup {"statistics"}
        /\ \A k \in DOMAIN result : result'[k] = result[k]
        /\ result'["lower"] = lower
        /\ result'["upper"] = upper
        /\ result'["tol"] = tol
        /\ result'["statistics"] = statistics]_vars

\* A warn-routed failure of a test whose interval is not a point.
C6_Witness ==
    /\ on_fail = "warn"
    /\ returned
    /\ FailureWarnings(warned) # {}
    /\ lower # upper

\* C7: with on_fail neither 'raise' nor 'warn', once the decision step has
\* acted, ValueError(on_fail) has been raised exactly when the check failed,
\* then with no BootstrapTestError, no failure warning and no return; when
\* every dimension lies inside, the record was returned normally.
C7_InvalidOnFail ==
    (on_fail \notin {"raise", "warn"} /\ Decided) =>
        IF SomeDimOutside
        THEN /\ pc = "raised"
             /\ raised.type = "ValueError"
             /\ "arg" \in DOMAIN raised
             /\ raised.arg = on_fail
             /\ ~returned
             /\ FailureWarnings(warned) = {}
        ELSE /\ pc = "returned"
             /\ returned
             /\ raised.type = "None"
             /\ FailureWarnings(warned) = {}
             /\ "statistics" \in DOMAIN result

\* An invalid on_fail that went unreported because the reference lies exactly
\* on the edge of the widened interval.
C7_Witness ==
    /\ on_fail = "invalid"
    /\ Decided
    /\ returned
    /\ \E d \in 1..Size(lower) :
          \/ reference.data[1] = QSub(lower.data[d], TolAt)
          \/ reference.data[1] = QAdd(upper.data[d], TolAt)

\* C8: once the dimension and policy checks have passed, no warning exists
\* before the tail step; from the tail step on, and so before the decision
\* and whatever its outcome, the tail UserWarning has been emitted (once,
\* first) if and only if alpha / k (k = 1 unless a bonferroni vector test) is
\* strictly below 1 / num_bootstrap_samples; the call goes on afterwards.
C8_TailWarningIff ==
    /\ pc = "tail" => warned = <<>>
    /\ (pc \in {"interval", "decide"} \/ Decided) =>
          /\ (TailWarnings(warned) # {}) <=>
                (alpha.n * num_bootstrap_samples <
                    alpha.d * (IF multiple_hypothesis_correction = "bonferroni"
                               THEN OutputDims ELSE 1))
          /\ TailWarnings(warned) \subseteq {1}
    /\ pc \in {"interval", "decide"} => (raised.type = "None" /\ ~returned)

\* A tail warning owed to the correction alone (alpha itself is not below
\* 1 / num_bootstrap_samples), followed by an invalid on_fail.
C8_Witness ==
    /\ Decided
    /\ TailWarnings(warned) # {}
    /\ ~QLt(alpha, Q(1, num_bootstrap_samples))
    /\ raised.type = "ValueError"

\* The k-th smallest value of a column, by counting.
OrderStat(col, k) ==
    CHOOSE x \in {col[j] : j \in DOMAIN col} :
        /\ Cardinality({j \in DOMAIN col : QLt(col[j], x)}) <= k - 1
        /\ Cardinality({j \in DOMAIN col : QLe(col[j], x)}) >= k

\* v is the quantile of col at probability p, interpolated linearly between
\* the order statistics around the position p * (N - 1).
IsQuantile(col, p, v) ==
    LET N == Len(col)
        hn == p.n * (N - 1)
        i == hn \div p.d
        a == OrderStat(col, i + 1)
        b == OrderStat(col, IF i + 2 > N THEN N ELSE i + 2)
    IN  QMul(v, QI(p.d)) = QAdd(QMul(a, QI(p.d)), QMul(QI(hn % p.d), QSub(b, a)))

C10_ToleranceMonotone ==
    LET c == samples.data[1]
        r == reference.data[1]
    IN  /\ Decided =>
              /\ \A i \in 1..Size(statistics) : statistics.data[i] = c
              /\ lower = Scalar(c)
              /\ upper = Scalar(c)
              /\ (returned /\ raised.type = "None" /\ FailureWarnings(warned) = {})
                    <=> QLe(QAbs(QSub(r, c)), QAdd(atol, QMul(rtol, QAbs(r))))
        /\ pc = "decide" =>
              \A t \in TolTolerances :
                  (/\ QLe(rtol, t[1])
                   /\ QLe(atol, t[2])
                   /\ ~Outside(reference, lower, upper, tol))
                  => ~Outside(reference, lower, upper, Tol(t[2], t[1], reference))

\* c = 2.9, r = 3, atol = 0.11 passes.
C10_Witness ==
    /\ samples.data[1] = Q(29, 10)
    /\ reference = Scalar(QI(3))
    /\ atol = Q(11, 100)
    /\ on_fail = "raise"
    /\ returned

====
